---------------------------- MODULE Spec2Model ----------------------------
(***************************************************************************)
(* A model of snmp.py: the translators (wire value <-> python value), the  *)
(* cached, write-verified RawAttribute/Attribute descriptor, parse_table   *)
(* and the construction of a Table.                                        *)
(*                                                                         *)
(* Python strings are sequences of one-character strings, so that slicing, *)
(* split, join, int() and hex() are computed character by character.       *)
(* Python values are records [t, s, n]: t is the type tag ("str", "int",   *)
(* "bool", "none", "enum") or, for a call that raised, the exception's     *)
(* name; s is the text of a str (the member name of an enum member); n is  *)
(* the number of an int or bool.                                           *)
(***************************************************************************)
EXTENDS Integers, Sequences, FiniteSets, TLC

VARIABLES
    \* ---- one Attribute (RawAttribute with a translator) and its hub ----
    translator,     \* Attribute._translator
    value,          \* RawAttribute._value
    value_gotten,   \* RawAttribute._value_gotten
    lastOp,         \* observation: the last operation called on the attribute
    outcome,        \* observation: "ok" or the exception the last operation raised
    result,         \* observation: what the last operation returned
    arg,            \* observation: the python value passed to the last write
    sent,           \* observation: the value handed to snmp_set by the last write
    readback,       \* observation: the value snmp_get returned to the last write
    opGets,         \* observation: snmp_get calls made by the last operation
    opSets,         \* observation: snmp_set calls made by the last operation
    seeded,         \* observation: the attribute was constructed with a value
    fresh,          \* observation: unseeded, and neither read nor refreshed so far
    reads,          \* observation: reads since the last write or refresh, if any
    nops,           \* number of operations so far
    \* ---- one translator call ----
    codec,          \* the translator under test
    cparts,         \* the pieces the input was put together from
    cin,            \* the input of the call
    cmid,           \* round trip: what snmp(cin) returned (or raised)
    cout,           \* what the call returned (or raised)
    cpc,            \* "in" before the call, then the name of the call made
    \* ---- one Table construction ----
    segs,           \* the walked oids as lists of segments below the table oid
    walk_result,    \* the walk_result argument of Table.__init__: [given, items]
    hub_walk,       \* what transport.snmp_walk(table_oid) returns
    column_mapping, \* the column_mapping argument
    rawtable,       \* the result of parse_table
    table,          \* the Table (a dict: row id -> row's keys)
    nwalk,          \* snmp_walk calls made
    tpc             \* "new", then "parsed" (parse_table) or "built" (Table)

bvars == <<translator, value, value_gotten, lastOp, outcome, result, arg,
           sent, readback, opGets, opSets, seeded, fresh, reads, nops>>
cvars == <<codec, cparts, cin, cmid, cout, cpc>>
tvars == <<segs, walk_result, hub_walk, column_mapping, rawtable, table, nwalk, tpc>>
vars == <<bvars, cvars, tvars>>

(***************************************************************************)
(* Bounds                                                                  *)
(***************************************************************************)
MaxOps == 3
MaxGroups == 6
MaxSegs == 3
MaxWalk == 2

(***************************************************************************)
(* Python values                                                           *)
(***************************************************************************)
PyStr(s) == [t |-> "str", s |-> s, n |-> 0]
PyInt(n) == [t |-> "int", s |-> <<>>, n |-> n]
PyBool(b) == [t |-> "bool", s |-> <<>>, n |-> IF b THEN 1 ELSE 0]
PyNone == [t |-> "none", s |-> <<>>, n |-> 0]
PyEnum(name) == [t |-> "enum", s |-> name, n |-> 0]
Raise(exc) == [t |-> exc, s |-> <<>>, n |-> 0]

Exceptions == {"ValueError", "KeyError", "TypeError", "NotImplementedError", "RemoteError"}
Raised(x) == x.t \in Exceptions

\* Python's ==: a bool is an int (True == 1); values of unlike types differ.
PyEq(a, b) ==
    IF a.t \in {"int", "bool"} /\ b.t \in {"int", "bool"} THEN a.n = b.n ELSE a = b

\* Python's truth value of x.
Truthy(x) ==
    CASE x.t = "none" -> FALSE
      [] x.t \in {"int", "bool"} -> x.n # 0
      [] x.t = "str" -> Len(x.s) > 0
      [] OTHER -> TRUE

(***************************************************************************)
(* Python string operations                                                *)
(***************************************************************************)
Min(a, b) == IF a < b THEN a ELSE b

\* s[i:j] for 0 <= i <= j
Slice(s, i, j) == SubSeq(s, i + 1, Min(j, Len(s)))

\* s[i:] for 0 <= i
SliceFrom(s, i) == SubSeq(s, i + 1, Len(s))

Digits == <<"0", "1", "2", "3", "4", "5", "6", "7", "8", "9">>
DigitSet == {Digits[i] : i \in 1..10}
DigitVal(c) == (CHOOSE i \in 1..10 : Digits[i] = c) - 1

HexLower == <<"0", "1", "2", "3", "4", "5", "6", "7", "8", "9",
              "a", "b", "c", "d", "e", "f">>
HexUpper == <<"0", "1", "2", "3", "4", "5", "6", "7", "8", "9",
              "A", "B", "C", "D", "E", "F">>
HexSet == {HexLower[i] : i \in 1..16} \cup {HexUpper[i] : i \in 1..16}
HexVal(c) == (CHOOSE i \in 1..16 : HexLower[i] = c \/ HexUpper[i] = c) - 1

\* str.lower(), on the letters the model's strings are made of
LowerChar(c) ==
    CASE c = "F" -> "f" [] c = "A" -> "a" [] c = "L" -> "l" [] c = "S" -> "s"
      [] c = "E" -> "e" [] c = "B" -> "b" [] c = "C" -> "c" [] c = "D" -> "d"
      [] c = "T" -> "t" [] c = "R" -> "r" [] c = "U" -> "u" [] c = "I" -> "i"
      [] c = "P" -> "p" [] OTHER -> c
Lower(s) == [i \in 1..Len(s) |-> LowerChar(s[i])]

\* the value of a string of decimal digits
RECURSIVE DecVal(_)
DecVal(s) == IF s = <<>> THEN 0 ELSE 10 * DecVal(SubSeq(s, 1, Len(s) - 1)) + DigitVal(s[Len(s)])

\* the value of a string of hex digits: int(s, base=16)
RECURSIVE HexInt(_)
HexInt(s) == IF s = <<>> THEN 0 ELSE 16 * HexInt(SubSeq(s, 1, Len(s) - 1)) + HexVal(s[Len(s)])

\* the decimal digits of n >= 0
RECURSIVE DecStr(_)
DecStr(n) == IF n < 10 THEN <<Digits[n + 1]>> ELSE DecStr(n \div 10) \o <<Digits[(n % 10) + 1]>>

\* hex(n)[2:].lower() for n >= 0
RECURSIVE HexStr(_)
HexStr(n) == IF n < 16 THEN <<HexLower[n + 1]>> ELSE HexStr(n \div 16) \o <<HexLower[(n % 16) + 1]>>

AllDigits(s) == \A i \in 1..Len(s) : s[i] \in DigitSet
AllHex(s) == \A i \in 1..Len(s) : s[i] \in HexSet

\* str(x)
Str(x) ==
    CASE x.t = "str" -> x.s
      [] x.t = "int" -> IF x.n < 0 THEN <<"-">> \o DecStr(0 - x.n) ELSE DecStr(x.n)
      [] x.t = "bool" -> IF x.n = 1 THEN <<"T", "r", "u", "e">> ELSE <<"F", "a", "l", "s", "e">>
      [] x.t = "none" -> <<"N", "o", "n", "e">>
      [] OTHER -> <<"I", "P", "V", "e", "r", "s", "i", "o", "n", ".">> \o x.s

\* int(x): the strings of the model hold no blanks and no underscores
PyIntOf(x) ==
    CASE x.t \in {"int", "bool"} -> PyInt(x.n)
      [] x.t = "str" ->
           IF Len(x.s) > 0 /\ AllDigits(x.s) THEN PyInt(DecVal(x.s))
           ELSE IF Len(x.s) > 1 /\ x.s[1] \in {"-", "+"} /\ AllDigits(Tail(x.s))
                THEN PyInt(IF x.s[1] = "-" THEN 0 - DecVal(Tail(x.s)) ELSE DecVal(Tail(x.s)))
                ELSE Raise("ValueError")
      [] OTHER -> Raise("TypeError")

\* s.split(sep), sep one character
RECURSIVE Split(_, _)
Split(s, sep) ==
    IF \A i \in 1..Len(s) : s[i] # sep THEN <<s>>
    ELSE LET k == CHOOSE i \in 1..Len(s) : s[i] = sep /\ \A j \in 1..(i - 1) : s[j] # sep
         IN <<SubSeq(s, 1, k - 1)>> \o Split(SubSeq(s, k + 1, Len(s)), sep)

\* sep.join(parts)
RECURSIVE Join(_, _)
Join(parts, sep) ==
    IF parts = <<>> THEN <<>>
    ELSE IF Len(parts) = 1 THEN parts[1]
    ELSE parts[1] \o sep \o Join(Tail(parts), sep)

(***************************************************************************)
(* Translators: snmp(python_value) and pyvalue(snmp_value)                 *)
(***************************************************************************)
\* class Translator: both directions return the input value
Translator_snmp(python_value) == python_value
Translator_pyvalue(snmp_value) == snmp_value

NullTranslator_snmp(python_value) ==
    IF python_value.t = "none" THEN PyStr(<<>>) ELSE PyStr(Str(python_value))
NullTranslator_pyvalue(snmp_value) ==
    IF PyEq(snmp_value, PyStr(<<>>)) THEN PyNone ELSE snmp_value

\* class IPVersion(enum.Enum): member name -> value
IPVersion == { <<<<"I", "P", "v", "4">>, <<"1">>>>,
               <<<<"I", "P", "v", "6">>, <<"2">>>>,
               <<<<"G", "o", "d", "K", "n", "o", "w", "s">>, <<"4">>>> }

\* enumclass[python_value]: the member of that name
EnumTranslator_snmp(python_value) ==
    IF python_value.t = "str" /\ \E m \in IPVersion : m[1] = python_value.s
    THEN PyEnum(python_value.s)
    ELSE Raise("KeyError")

\* enumclass(snmp_value): the member of that value (a member is returned as it is)
EnumTranslator_pyvalue(snmp_value) ==
    IF snmp_value.t = "enum" THEN snmp_value
    ELSE IF snmp_value.t = "str" /\ \E m \in IPVersion : m[2] = snmp_value.s
    THEN PyEnum((CHOOSE m \in IPVersion : m[2] = snmp_value.s)[1])
    ELSE Raise("ValueError")

BoolTranslator_snmp(python_value) ==
    IF python_value.t = "str" /\ Lower(python_value.s) = <<"f", "a", "l", "s", "e">>
    THEN PyStr(<<"2">>)
    ELSE IF Truthy(python_value) THEN PyStr(<<"1">>) ELSE PyStr(<<"2">>)
BoolTranslator_pyvalue(snmp_value) == PyBool(PyEq(snmp_value, PyStr(<<"1">>)))

IntTranslator_snmp(python_value) ==
    IF python_value.t = "none" THEN PyStr(<<>>)
    ELSE IF Raised(PyIntOf(python_value)) THEN PyIntOf(python_value)
    ELSE PyStr(Str(PyIntOf(python_value)))
IntTranslator_pyvalue(snmp_value) ==
    IF PyEq(snmp_value, PyStr(<<>>)) THEN PyNone ELSE PyIntOf(snmp_value)

\* slicing a value that is no str raises TypeError
MacAddressTranslator_pyvalue(snmp_value) ==
    IF snmp_value.t # "str" THEN Raise("TypeError")
    ELSE LET v == snmp_value.s
         IN PyStr(Slice(v, 1, 3) \o <<":">> \o Slice(v, 3, 5) \o <<":">> \o Slice(v, 5, 7)
                  \o <<":">> \o Slice(v, 7, 9) \o <<":">> \o Slice(v, 9, 11)
                  \o <<":">> \o Slice(v, 11, 13))
MacAddressTranslator_snmp(python_value) == Raise("NotImplementedError")

\* _IPV4_SNMP_RE.fullmatch: "$" and 8 hex digits
IPV4_SNMP_RE(s) == Len(s) = 9 /\ s[1] = "$" /\ AllHex(Tail(s))
\* _IPV4_PY_RE.fullmatch: four groups of 1 to 3 digits, separated by dots
IPV4_PY_RE(s) ==
    LET parts == Split(s, ".")
    IN Len(parts) = 4 /\ \A i \in 1..4 : Len(parts[i]) \in 1..3 /\ AllDigits(parts[i])

\* "{0:0>2s}".format(hex(int(decimal))[2:].lower())
tohex(decimal) ==
    LET h == HexStr(DecVal(decimal)) IN IF Len(h) < 2 THEN <<"0">> \o h ELSE h

IPv4Translator_snmp(python_value) ==
    IF python_value.t = "none" THEN PyStr(<<"$", "0", "0", "0", "0", "0", "0", "0", "0">>)
    ELSE IF python_value.t # "str" THEN Raise("TypeError")
    ELSE IF ~IPV4_PY_RE(python_value.s) THEN Raise("ValueError")
    ELSE LET parts == Split(python_value.s, ".")
         IN PyStr(<<"$">> \o tohex(parts[1]) \o tohex(parts[2]) \o tohex(parts[3])
                  \o tohex(parts[4]))

IPv4Translator_pyvalue(snmp_value) ==
    IF PyEq(snmp_value, PyStr(<<>>))
       \/ PyEq(snmp_value, PyStr(<<"$", "0", "0", "0", "0", "0", "0", "0", "0">>))
    THEN PyNone
    ELSE IF snmp_value.t # "str" THEN Raise("TypeError")
    ELSE IF ~IPV4_SNMP_RE(snmp_value.s) THEN Raise("ValueError")
    ELSE LET v == snmp_value.s
         IN PyStr(DecStr(HexInt(Slice(v, 1, 3))) \o <<".">> \o DecStr(HexInt(Slice(v, 3, 5)))
                  \o <<".">> \o DecStr(HexInt(Slice(v, 5, 7)))
                  \o <<".">> \o DecStr(HexInt(Slice(v, 7, 9))))

Translators == {"Translator", "NullTranslator", "EnumTranslator", "BoolTranslator",
                "IntTranslator", "MacAddressTranslator", "IPv4Translator"}

\* self._translator.snmp(value)
snmp(tr, python_value) ==
    CASE tr = "Translator" -> Translator_snmp(python_value)
      [] tr = "NullTranslator" -> NullTranslator_snmp(python_value)
      [] tr = "EnumTranslator" -> EnumTranslator_snmp(python_value)
      [] tr = "BoolTranslator" -> BoolTranslator_snmp(python_value)
      [] tr = "IntTranslator" -> IntTranslator_snmp(python_value)
      [] tr = "MacAddressTranslator" -> MacAddressTranslator_snmp(python_value)
      [] tr = "IPv4Translator" -> IPv4Translator_snmp(python_value)

\* self._translator.pyvalue(value)
pyvalue(tr, snmp_value) ==
    CASE tr = "Translator" -> Translator_pyvalue(snmp_value)
      [] tr = "NullTranslator" -> NullTranslator_pyvalue(snmp_value)
      [] tr = "EnumTranslator" -> EnumTranslator_pyvalue(snmp_value)
      [] tr = "BoolTranslator" -> BoolTranslator_pyvalue(snmp_value)
      [] tr = "IntTranslator" -> IntTranslator_pyvalue(snmp_value)
      [] tr = "MacAddressTranslator" -> MacAddressTranslator_pyvalue(snmp_value)
      [] tr = "IPv4Translator" -> IPv4Translator_pyvalue(snmp_value)

(***************************************************************************)
(* One Attribute of one hub                                                *)
(***************************************************************************)
\* the values the hub may hold for the oid
HubValues == { PyStr(<<>>), PyStr(<<"0">>), PyStr(<<"1">>), PyStr(<<"2">>),
               PyStr(<<"0", "5">>),
               PyStr(<<"$", "0", "1", "0", "2", "0", "3", "0", "4">>) }

\* the python values a caller assigns to the attribute
WriteValues == { PyNone, PyBool(TRUE), PyBool(FALSE), PyInt(5), PyStr(<<"2">>),
                 PyStr(<<"f", "a", "l", "s", "e">>),
                 PyStr(<<"I", "P", "v", "4">>),
                 PyStr(<<"1", ".", "2", ".", "3", ".", "4">>) }

\* instance.snmp_get(oid): the hub is not part of the program, and holds any
\* value at any time; the call returns that value or raises
snmp_get == HubValues \cup {Raise("RemoteError")}

\* instance.snmp_set(oid, v, datatype) and the instance.snmp_get(oid) after it:
\* snmp_set raises (no snmp_get follows), or returns, and snmp_get then raises
\* or returns v or whatever the hub made of it
snmp_set_get(v) ==
    {<<"RemoteError", PyNone>>}
    \cup {<<"ok", rb>> : rb \in snmp_get \cup (IF v.t = "str" THEN {v} ELSE {})}

\* RawAttribute.__init__: value=None leaves the attribute unfetched
InitAttribute ==
    /\ translator \in Translators
    /\ value \in HubValues \cup {PyNone}
    /\ value_gotten = (value # PyNone)
    /\ lastOp = "init"
    /\ outcome = "ok"
    /\ result = PyNone
    /\ arg = PyNone
    /\ sent = PyNone
    /\ readback = PyNone
    /\ opGets = 0
    /\ opSets = 0
    /\ seeded = value_gotten
    /\ fresh = ~value_gotten
    /\ reads = 0
    /\ nops = 0

NoAttribute ==
    /\ translator = "Translator"
    /\ value = PyNone
    /\ value_gotten = FALSE
    /\ lastOp = "init"
    /\ outcome = "ok"
    /\ result = PyNone
    /\ arg = PyNone
    /\ sent = PyNone
    /\ readback = PyNone
    /\ opGets = 0
    /\ opSets = 0
    /\ seeded = FALSE
    /\ fresh = FALSE
    /\ reads = 0
    /\ nops = 0

\* what the observation variables record of one operation
Observe(op, out, res, gets, sets) ==
    /\ lastOp' = op
    /\ outcome' = out
    /\ result' = res
    /\ opGets' = gets
    /\ opSets' = sets
    /\ nops' = nops + 1

\* a refresh that forgets line 81
GottenAfterRefresh_forgotten == value_gotten

\* refresh, line 81: self._value_gotten = True
GottenAfterRefresh == TRUE

\* RawAttribute.refresh(instance), as a step of its caller; got is what
\* snmp_get returned or raised
refresh(got) ==
    IF Raised(got)
    THEN UNCHANGED <<value, value_gotten>>
    ELSE value' = got /\ value_gotten' = GottenAfterRefresh

\* RawAttribute.refresh called by the user
Refresh ==
    /\ nops < MaxOps
    /\ \E got \in snmp_get :
          /\ refresh(got)
          /\ Observe("refresh", IF Raised(got) THEN got.t ELSE "ok", PyNone, 1, 0)
    /\ fresh' = FALSE
    /\ reads' = 0
    /\ UNCHANGED <<translator, arg, sent, readback, seeded>>

\* __get__, line 84: if not self._value_gotten
NeedsRefresh == ~value_gotten

\* Attribute.__get__: RawAttribute.__get__ (a refresh when nothing was gotten
\* yet), then the translator's pyvalue of the raw value
Get ==
    /\ nops < MaxOps
    /\ IF NeedsRefresh
       THEN \E got \in snmp_get :
               /\ refresh(got)
               /\ IF Raised(got)
                  THEN Observe("read", got.t, PyNone, 1, 0)
                  ELSE LET res == pyvalue(translator, got)
                       IN Observe("read", IF Raised(res) THEN res.t ELSE "ok", res, 1, 0)
       ELSE /\ UNCHANGED <<value, value_gotten>>
            /\ LET res == pyvalue(translator, value)
               IN Observe("read", IF Raised(res) THEN res.t ELSE "ok", res, 0, 0)
    /\ fresh' = FALSE
    /\ reads' = reads + 1
    /\ UNCHANGED <<translator, arg, sent, readback, seeded>>

\* a check of the decoded read-back against the python value assigned
Mismatch_decoded(rb, v) == ~PyEq(pyvalue(translator, rb), arg')

\* __set__, line 91: readback != value
Mismatch(rb, v) == ~PyEq(rb, v)

\* a __set__ that assigns self._value before it checks the read-back
ValueOnMismatch_assigned(rb) == rb

\* __set__, lines 91-97: the raise leaves self._value alone
ValueOnMismatch(rb) == value

\* __set__, line 98: self._value = readback, and _value_gotten is not assigned
GottenAfterSet == value_gotten

\* RawAttribute.__set__(instance, v); the ValueError of line 92 is recorded as
\* "WriteVerificationError", to tell it from a translator's ValueError
RawAttribute_set(v) ==
    \E r \in snmp_set_get(v) :
       /\ sent' = v
       /\ IF r[1] # "ok"
          THEN /\ UNCHANGED <<value, value_gotten>>
               /\ readback' = PyNone
               /\ Observe("write", r[1], PyNone, 0, 1)
          ELSE IF Raised(r[2])
          THEN /\ UNCHANGED <<value, value_gotten>>
               /\ readback' = PyNone
               /\ Observe("write", r[2].t, PyNone, 1, 1)
          ELSE /\ readback' = r[2]
               /\ IF Mismatch(r[2], v)
                  THEN /\ value' = ValueOnMismatch(r[2])
                       /\ UNCHANGED value_gotten
                       /\ Observe("write", "WriteVerificationError", PyNone, 1, 1)
                  ELSE /\ value' = r[2]
                       /\ value_gotten' = GottenAfterSet
                       /\ Observe("write", "ok", PyNone, 1, 1)

\* Attribute.__set__(instance, v)
Set(v) ==
    /\ nops < MaxOps
    /\ arg' = v
    /\ LET w == snmp(translator, v)
       IN IF Raised(w)
          THEN /\ UNCHANGED <<value, value_gotten>>
               /\ sent' = PyNone
               /\ readback' = PyNone
               /\ Observe("write", w.t, PyNone, 0, 0)
          ELSE RawAttribute_set(w)
    /\ reads' = 0
    /\ UNCHANGED <<translator, fresh, seeded>>

NoCodec ==
    /\ codec = "none"
    /\ cparts = <<>>
    /\ cin = PyNone
    /\ cmid = PyNone
    /\ cout = PyNone
    /\ cpc = "none"
NoTable ==
    /\ segs = <<>>
    /\ walk_result = [given |-> FALSE, items |-> <<>>]
    /\ hub_walk = <<>>
    /\ column_mapping = <<>>
    /\ rawtable = <<>>
    /\ table = <<>>
    /\ nwalk = 0
    /\ tpc = "none"

InitA == InitAttribute /\ NoCodec /\ NoTable
NextA ==
    \/ Get /\ UNCHANGED <<cvars, tvars>>
    \/ Refresh /\ UNCHANGED <<cvars, tvars>>
    \/ (\E v \in WriteValues : Set(v)) /\ UNCHANGED <<cvars, tvars>>
SpecAttribute == InitA /\ [][NextA]_vars

(***************************************************************************)
(* One translator call on one input                                        *)
(***************************************************************************)
\* the concatenation of a list of strings
RECURSIVE Concat(_)
Concat(parts) == IF parts = <<>> THEN <<>> ELSE parts[1] \o Concat(Tail(parts))

\* the lists of length n over the set S
Lists(S, n) == [1..n -> S]

\* python values handed to snmp()
PyInputs ==
    { PyNone, PyBool(TRUE), PyBool(FALSE), PyInt(0), PyInt(1), PyInt(5), PyInt(12),
      PyInt(0 - 3), PyStr(<<>>), PyStr(<<"5">>), PyStr(<<"0", "5">>), PyStr(<<"x">>),
      PyStr(<<"f", "a", "l", "s", "e">>), PyStr(<<"F", "a", "l", "s", "e">>),
      PyStr(<<"t", "r", "u", "e">>), PyStr(<<"1">>),
      PyStr(<<"I", "P", "v", "4">>), PyStr(<<"I", "P", "v", "6">>),
      PyStr(<<"G", "o", "d", "K", "n", "o", "w", "s">>),
      PyEnum(<<"I", "P", "v", "4">>) }

\* dotted decimal strings: three or four groups of digits
Octets == { <<"0">>, <<"1">>, <<"0", "1">>, <<"1", "0">>, <<"1", "9", "2">>,
            <<"2", "5", "5">>, <<"2", "5", "6">> }
Dotted == Lists(Octets, 4) \cup Lists({<<"1">>, <<"1", "0">>}, 3)

\* wire values handed to MacAddressTranslator.pyvalue: a first character or
\* none, up to MaxGroups groups of two characters, and a last character or none
MacGroups == { <<"7", "b">>, <<"F", "5">>, <<"z", "z">> }
MacWires ==
    { <<g, p \o Concat(g) \o e>> :
        g \in UNION { Lists(MacGroups, k) : k \in 0..MaxGroups },
        p \in { <<>>, <<"$">>, <<"x">> },
        e \in { <<>>, <<"f">> } }

RoundTripCodecs == {"BoolTranslator", "IntTranslator", "IPv4Translator", "EnumTranslator"}

\* <<translator, pieces, input>>
CodecInputs ==
    { <<c, <<>>, v>> : c \in RoundTripCodecs, v \in PyInputs }
    \cup { <<"IPv4Translator", d, PyStr(Join(d, <<".">>))>> : d \in Dotted }
    \cup { <<"MacAddressTranslator", w[1], PyStr(w[2])>> : w \in MacWires }

InitCodec ==
    /\ \E i \in CodecInputs : codec = i[1] /\ cparts = i[2] /\ cin = i[3]
    /\ cmid = PyNone
    /\ cout = PyNone
    /\ cpc = "in"

\* pyvalue(snmp(v)); an exception of snmp() ends the call
RoundTrip ==
    /\ cpc = "in"
    /\ codec \in RoundTripCodecs
    /\ cmid' = snmp(codec, cin)
    /\ cout' = IF Raised(cmid') THEN cmid' ELSE pyvalue(codec, cmid')
    /\ cpc' = "roundtrip"
    /\ UNCHANGED <<codec, cparts, cin>>

\* pyvalue(w) of a wire value
Decode ==
    /\ cpc = "in"
    /\ cin.t = "str"
    /\ cout' = pyvalue(codec, cin)
    /\ cpc' = "pyvalue"
    /\ UNCHANGED <<codec, cparts, cin, cmid>>

InitC == NoAttribute /\ InitCodec /\ NoTable
NextC ==
    \/ RoundTrip /\ UNCHANGED <<bvars, tvars>>
    \/ Decode /\ UNCHANGED <<bvars, tvars>>
SpecCodec == InitC /\ [][NextC]_vars

(***************************************************************************)
(* Python dicts: lists of <<key, value>> in insertion order                *)
(***************************************************************************)
DictHas(d, k) == \E i \in 1..Len(d) : d[i][1] = k
DictGet(d, k) == d[CHOOSE i \in 1..Len(d) : d[i][1] = k][2]
DictKeys(d) == [i \in 1..Len(d) |-> d[i][1]]
\* d[k] = v: a key that is there keeps its place
DictSet(d, k, v) ==
    IF DictHas(d, k)
    THEN [i \in 1..Len(d) |-> IF d[i][1] = k THEN <<k, v>> ELSE d[i]]
    ELSE Append(d, <<k, v>>)

(***************************************************************************)
(* parse_table and Table.__init__                                          *)
(***************************************************************************)
table_oid == <<"1", ".", "3", ".", "6", ".", "1", ".", "2">>

\* an off-by-one column_id: the separator after the table oid is not skipped
column_id_with_separator(oid) == Split(SliceFrom(oid, Len(table_oid)), ".")[1]

\* oid[len(table_oid)+1:].split('.')[0]
column_id(oid) == Split(SliceFrom(oid, Len(table_oid) + 1), ".")[1]

\* '.'.join(oid[len(table_oid)+1:].split('.')[1:])
row_id(oid) == Join(Tail(Split(SliceFrom(oid, Len(table_oid) + 1), ".")), <<".">>)

\* the loop of parse_table over walk_result.items(), from item i on
RECURSIVE parse_table_loop(_, _, _)
parse_table_loop(items, i, result_dict) ==
    IF i > Len(items) THEN result_dict
    ELSE LET this_column_id == column_id(items[i][1])
             this_row_id == row_id(items[i][1])
             row == IF DictHas(result_dict, this_row_id)
                    THEN DictGet(result_dict, this_row_id)
                    ELSE <<>>
         IN parse_table_loop(items, i + 1,
                DictSet(result_dict, this_row_id,
                        DictSet(row, this_column_id, items[i][2])))

parse_table(items) == parse_table_loop(items, 1, <<>>)

\* a filter that looks the column id up among the mapped names
ColumnMapped_by_name(col, mapping) == \E i \in 1..Len(mapping) : mapping[i][2].name = col

\* line 463: column_id in column_mapping
ColumnMapped(col, mapping) == DictHas(mapping, col)

\* lines 462-467: the row's mapped columns, as (oid, raw_value, mapping)
RECURSIVE MappedColumns(_, _, _, _)
MappedColumns(rowid, row, mapping, i) ==
    IF i > Len(row) THEN <<>>
    ELSE LET col == row[i][1]
             rest == MappedColumns(rowid, row, mapping, i + 1)
         IN IF ~ColumnMapped(col, mapping) THEN rest
            ELSE << <<col, [oid |-> table_oid \o <<".">> \o col \o <<".">> \o rowid,
                            raw_value |-> row[i][2],
                            mapping |-> DictGet(mapping, col)]>> >> \o rest

\* lines 459-469: result_dict, without the rows that have no mapped column
RECURSIVE FilterRows(_, _, _)
FilterRows(raw, mapping, i) ==
    IF i > Len(raw) THEN <<>>
    ELSE LET cols == MappedColumns(raw[i][1], raw[i][2], mapping, 1)
             rest == FilterRows(raw, mapping, i + 1)
         IN IF cols = <<>> THEN rest ELSE << <<raw[i][1], cols>> >> \o rest

\* lines 476-481: name -> Attribute(oid, value=raw_value, translator), in the
\* order of the row's columns
RECURSIVE ClassDict(_, _, _)
ClassDict(cols, i, class_dict) ==
    IF i > Len(cols) THEN class_dict
    ELSE ClassDict(cols, i + 1,
             DictSet(class_dict, cols[i][2].mapping.name,
                     [oid |-> cols[i][2].oid,
                      value |-> cols[i][2].raw_value,
                      translator |-> cols[i][2].mapping.translator]))

\* a Table that leaves the class_dict in the order the columns arrived
Reorder_skipped(class_dict, mapping, i, out) == class_dict

\* lines 488-490: the class_dict again, in the order of column_mapping.values()
RECURSIVE Reorder(_, _, _, _)
Reorder(class_dict, mapping, i, out) ==
    IF i > Len(mapping) THEN out
    ELSE LET name == mapping[i][2].name
         IN Reorder(class_dict, mapping, i + 1,
                    IF DictHas(class_dict, name)
                    THEN DictSet(out, name, DictGet(class_dict, name))
                    ELSE out)

\* lines 474-493: self[rowkey] = RowClass(self, class_dict) for every row with
\* a class_dict that is not empty; a row is its _keys
RECURSIVE Rows(_, _, _, _)
Rows(result_dict, mapping, i, self) ==
    IF i > Len(result_dict) THEN self
    ELSE LET class_dict == ClassDict(result_dict[i][2], 1, <<>>)
         IN Rows(result_dict, mapping, i + 1,
                 IF class_dict = <<>> THEN self
                 ELSE DictSet(self, result_dict[i][1],
                              Reorder(class_dict, mapping, 1, <<>>)))

\* lines 451-452: "not walk_result" holds of None and of an empty dict
NotWalkResult == ~walk_result.given \/ walk_result.items = <<>>

\* the segments of the walked oids: 1 to MaxSegs segments below the table oid
Segments == { <<"1">>, <<"2", "0">> }
SegLists == UNION { Lists(Segments, k) : k \in 1..MaxSegs }
Walks == { w \in UNION { Lists(SegLists, k) : k \in 0..MaxWalk } :
             \A i, j \in 1..Len(w) : i # j => w[i] # w[j] }

\* the raw value of the i-th walked oid
RawValues == <<"A", "B", "C", "D", "E", "F", "G", "H">>
WalkItems(w) ==
    [i \in 1..Len(w) |-> <<table_oid \o <<".">> \o Join(w[i], <<".">>), PyStr(<<RawValues[i]>>)>>]

\* what the hub holds when the caller brings a walk_result of its own
OtherWalk == << <<table_oid \o <<".", "1", ".", "9", "9">>, PyStr(<<"Z">>)>> >>

\* column_mapping: column ids in any order, each with its name; no translator
\* is given, so NullTranslator is used
ColumnNames == { <<<<"1">>, <<"p", "o", "r", "t">>>>, <<<<"2", "0">>, <<"a", "d", "d", "r">>>> }
ColumnMappings ==
    { m \in UNION { Lists(ColumnNames, k) : k \in 0..Cardinality(ColumnNames) } :
        \A i, j \in 1..Len(m) : i # j => m[i] # m[j] }
MappingDict(m) ==
    [i \in 1..Len(m) |-> <<m[i][1], [name |-> m[i][2], translator |-> "NullTranslator"]>>]

InitTable ==
    /\ segs \in Walks
    /\ \E given \in BOOLEAN :
          /\ walk_result = [given |-> given, items |-> IF given THEN WalkItems(segs) ELSE <<>>]
          /\ hub_walk = IF given THEN OtherWalk ELSE WalkItems(segs)
    /\ \E m \in ColumnMappings : column_mapping = MappingDict(m)
    /\ rawtable = <<>>
    /\ table = <<>>
    /\ nwalk = 0
    /\ tpc = "new"

\* the walk that segs describes
Walked == IF walk_result.given THEN walk_result.items ELSE hub_walk

\* parse_table(table_oid, walk_result), called on the walk by itself
ParseTable ==
    /\ tpc = "new"
    /\ rawtable' = parse_table(Walked)
    /\ tpc' = "parsed"
    /\ UNCHANGED <<segs, walk_result, hub_walk, column_mapping, table, nwalk>>

\* Table.__init__(transport, table_oid, column_mapping, walk_result)
TableInit ==
    /\ tpc = "new"
    /\ nwalk' = IF NotWalkResult THEN 1 ELSE 0
    /\ rawtable' = parse_table(IF NotWalkResult THEN hub_walk ELSE walk_result.items)
    /\ table' = Rows(FilterRows(rawtable', column_mapping, 1), column_mapping, 1, <<>>)
    /\ tpc' = "built"
    /\ UNCHANGED <<segs, walk_result, hub_walk, column_mapping>>

InitT == NoAttribute /\ NoCodec /\ InitTable
NextT ==
    \/ ParseTable /\ UNCHANGED <<bvars, cvars>>
    \/ TableInit /\ UNCHANGED <<bvars, cvars>>
SpecTable == InitT /\ [][NextT]_vars

(***************************************************************************)
(* Claims about the Attribute (checked under SpecAttribute)                *)
(***************************************************************************)
Verified == lastOp = "write" /\ outcome \in {"ok", "WriteVerificationError"}

\* C1: after a write that succeeds, whatever the state before it, the
\* attribute is cached (value gotten) holding the read-back value, and a read
\* that follows makes no remote call and returns that value, decoded.
C1_WriteLeavesCached ==
    [][(lastOp = "write" /\ outcome = "ok")
        => /\ value_gotten
           /\ value = readback
           /\ (nops' = nops + 1 /\ lastOp' = "read")
               => /\ opGets' = 0
                  /\ opSets' = 0
                  /\ result' = pyvalue(translator, readback)]_vars

\* C2, as claimed: a write whose store and fetch both returned raises the
\* verification error exactly when the decoded read-back differs from the
\* python value passed to the write.
C2_FailsIffDecodedDiffers ==
    Verified => ((outcome = "WriteVerificationError")
                  <=> ~PyEq(pyvalue(translator, readback), arg))

\* C2, amended: a write whose store and fetch both returned raises the
\* verification error exactly when the read-back wire value differs from the
\* value the translator's snmp() made of the python value, which is the value
\* that was sent.
C2_FailsIffWireDiffers ==
    Verified => /\ sent = snmp(translator, arg)
                /\ (outcome = "WriteVerificationError") <=> ~PyEq(readback, sent)

\* C2's case: a write is rejected although the read-back decodes to the
\* python value that was passed.
C2_Witness ==
    /\ lastOp = "write"
    /\ outcome = "WriteVerificationError"
    /\ PyEq(pyvalue(translator, readback), arg)

\* C3: the first read of a fresh (unseeded) attribute makes exactly one
\* snmp_get; a read that follows a read that got its raw value, with no write
\* or refresh in between, makes no remote call and ends as that read did.
C3_ReadFetchesOnce ==
    [][(nops' = nops + 1 /\ lastOp' = "read")
        => /\ fresh => (opGets' = 1 /\ opSets' = 0)
           /\ (lastOp = "read" /\ outcome # "RemoteError")
               => /\ opGets' = 0
                  /\ opSets' = 0
                  /\ result' = result
                  /\ outcome' = outcome]_vars

\* C3's case: an unseeded attribute was read twice and nothing else; the
\* second read returned without a remote call.
C3_Witness ==
    /\ ~seeded
    /\ nops = 2
    /\ reads = 2
    /\ outcome = "ok"
    /\ opGets = 0

\* C4: when snmp_set returned and snmp_get returned a value different from
\* the one written, the write raises the verification error and leaves _value
\* and _value_gotten as they were.
C4_FailedWriteLeavesCache ==
    [][(nops' = nops + 1 /\ lastOp' = "write" /\ opSets' = 1 /\ opGets' = 1
        /\ readback' # PyNone /\ ~PyEq(readback', sent'))
        => /\ outcome' = "WriteVerificationError"
           /\ value' = value
           /\ value_gotten' = value_gotten]_vars

\* C4's case: a rejected write on a cached attribute, which kept its value
\* and not the one read back.
C4_Witness ==
    /\ lastOp = "write"
    /\ outcome = "WriteVerificationError"
    /\ value_gotten
    /\ value # readback

(***************************************************************************)
(* Claims about the translators (checked under SpecCodec)                  *)
(***************************************************************************)
\* C5: for the boolean, integer, IPv4 and enumeration translators, and every
\* python value v that snmp() accepts (returns without raising),
\* pyvalue(snmp(v)) == v.
C5_RoundTrip ==
    (cpc = "roundtrip" /\ ~Raised(cmid)) => (~Raised(cout) /\ PyEq(cout, cin))

\* "$" followed by exactly 12 hex digits
IsMacWire(s) == Len(s) = 13 /\ s[1] = "$" /\ AllHex(Tail(s))

\* C6: MacAddressTranslator.pyvalue raises the format error (a ValueError)
\* for every wire value that is not "$" and 12 hex digits, and returns the six
\* groups of two digits joined by ":" for every wire value that is.
C6_MacDecode ==
    (cpc = "pyvalue" /\ codec = "MacAddressTranslator")
        => IF IsMacWire(cin.s)
           THEN cout = PyStr(Join(cparts, <<":">>))
           ELSE cout = Raise("ValueError")

\* the half of C6 that the code keeps: a well-formed wire value decodes to its
\* six groups joined by ":"
C6_MacDecodeWellFormed ==
    (cpc = "pyvalue" /\ codec = "MacAddressTranslator" /\ IsMacWire(cin.s))
        => cout = PyStr(Join(cparts, <<":">>))

(***************************************************************************)
(* Claims about parse_table and Table (checked under SpecTable)            *)
(***************************************************************************)
\* C7: Table.__init__ calls snmp_walk exactly once when no walk_result is
\* given, and not at all when one is given, whatever it holds.
C7_WalkOnlyWhenNotGiven ==
    tpc = "built" => nwalk = (IF walk_result.given THEN 0 ELSE 1)

\* the column ids of column_mapping
SchemaColumns == { column_mapping[i][1] : i \in 1..Len(column_mapping) }
\* the column ids of a row of rawtable
RowColumns(row) == { row[i][1] : i \in 1..Len(row) }
TableRowIds == { table[i][1] : i \in 1..Len(table) }

\* C8: the Table holds a row for a row id exactly when one of the row's
\* column ids is in column_mapping; a row whose columns are all unmapped is
\* in no iteration of the Table, and the Table holds no other row.
C8_RowIffMappedColumn ==
    tpc = "built" =>
        /\ \A i \in 1..Len(rawtable) :
              (rawtable[i][1] \in TableRowIds)
                  <=> (RowColumns(rawtable[i][2]) \cap SchemaColumns # {})
        /\ \A r \in TableRowIds : DictHas(rawtable, r)
        /\ \A i, j \in 1..Len(table) : table[i][1] = table[j][1] => i = j

\* C8's case: a walk with a row that is materialized and a row, all of whose
\* columns are unmapped, that is not.
C8_Witness ==
    /\ tpc = "built"
    /\ table # <<>>
    /\ \E i \in 1..Len(rawtable) :
          /\ rawtable[i][2] # <<>>
          /\ RowColumns(rawtable[i][2]) \cap SchemaColumns = {}
          /\ rawtable[i][1] \notin TableRowIds

\* the names of the mapped columns, in the order of column_mapping, of the
\* columns in cols
RECURSIVE SchemaOrder(_, _)
SchemaOrder(cols, i) ==
    IF i > Len(column_mapping) THEN <<>>
    ELSE (IF column_mapping[i][1] \in cols THEN <<column_mapping[i][2].name>> ELSE <<>>)
         \o SchemaOrder(cols, i + 1)

\* C9: the fields of every row of the Table are the names column_mapping
\* declares, in its order, for the columns the row has; the order in which
\* the row's columns were walked does not show.
C9_FieldsInSchemaOrder ==
    tpc = "built" =>
        \A i \in 1..Len(table) :
            DictKeys(table[i][2])
                = SchemaOrder(RowColumns(DictGet(rawtable, table[i][1])), 1)

\* C9's case: a row whose two mapped columns were walked in the order
\* opposite to that of column_mapping.
C9_Witness ==
    /\ tpc = "built"
    /\ \E i \in 1..Len(table) :
          LET row == DictGet(rawtable, table[i][1])
          IN /\ Len(row) >= 2
             /\ ColumnMapped(row[1][1], column_mapping)
             /\ ColumnMapped(row[2][1], column_mapping)
             /\ DictKeys(table[i][2])
                    = <<DictGet(column_mapping, row[2][1]).name,
                        DictGet(column_mapping, row[1][1]).name>>

\* C10: parse_table puts each walked (oid, raw_value) at
\* grouping[row_id][column_id], column_id the first segment of the oid below
\* the table oid and row_id the other segments joined by ".", and the
\* grouping holds nothing else.
C10_Grouping ==
    tpc = "parsed" =>
        /\ \A i \in 1..Len(segs) :
              LET row == Join(Tail(segs[i]), <<".">>)
                  col == Head(segs[i])
              IN /\ DictHas(rawtable, row)
                 /\ DictHas(DictGet(rawtable, row), col)
                 /\ DictGet(DictGet(rawtable, row), col) = PyStr(<<RawValues[i]>>)
        /\ \A r \in 1..Len(rawtable) : \A c \in 1..Len(rawtable[r][2]) :
              \E i \in 1..Len(segs) :
                 /\ rawtable[r][1] = Join(Tail(segs[i]), <<".">>)
                 /\ rawtable[r][2][c][1] = Head(segs[i])
        /\ \A r1, r2 \in 1..Len(rawtable) : rawtable[r1][1] = rawtable[r2][1] => r1 = r2
        /\ \A r \in 1..Len(rawtable) : \A c1, c2 \in 1..Len(rawtable[r][2]) :
              rawtable[r][2][c1][1] = rawtable[r][2][c2][1] => c1 = c2

\* C10's case: two oids of one row, one of them with a row id of two
\* segments, grouped into that row's two columns.
C10_Witness ==
    /\ tpc = "parsed"
    /\ \E r \in 1..Len(rawtable) :
          /\ rawtable[r][1] = <<"2", "0", ".", "1">>
          /\ DictKeys(rawtable[r][2]) = << <<"1">>, <<"2", "0">> >>

=============================================================================
